---- MODULE Spec2Model ----
(***************************************************************************)
(* csi-debugger: an in-memory secret store (MemoryStore, guarded by a      *)
(* sync.RWMutex), the gRPC provider that answers Mount and Version from    *)
(* it, and the HTTP admin handlers (/, /update, /delete, /bulk) that edit  *)
(* it.  Every request runs in its own goroutine; a goroutine is a process  *)
(* of the model and every step between two accesses to shared state is an  *)
(* action.                                                                 *)
(*                                                                         *)
(* Strings are TLA+ strings; the byte order Go compares them by is given   *)
(* by Bytes.  A struct store into a map slot is not atomic in Go: it is    *)
(* modelled as the slot lookup followed by one store per field, so that a  *)
(* reader that is not excluded by the lock sees torn records.              *)
(*                                                                         *)
(* main, startGRPCServer, startHTTPServer and their two shutdown           *)
(* goroutines are the record life.  Spec is the program in service, with   *)
(* every kind of request, no failure and no signal; LifeSpec is the        *)
(* program with failing listeners and termination signals, serving         *)
(* requests that only read the store; StreamSpec is the program in         *)
(* service under requests that never cease, on three request goroutines.   *)
(***************************************************************************)
EXTENDS Naturals, Sequences, FiniteSets

(* ------------------------------ bounds -------------------------------- *)

\* Number of requests the two servers accept in one run.
MaxRequests == 2

\* Longest JSON array a /bulk request carries.
MaxBulkLen == 2

(* --------------------------- program constants ------------------------ *)

DefaultMode == 420

StatusOK == 200

StatusSeeOther == 303

StatusBadRequest == 400

StatusMethodNotAllowed == 405

SeedName == "debug-secret.txt"

SeedValue == "Initial value loaded at startup"

SeedVersion == "v1"

\* os.Exit(1) after a configuration that does not parse, os.Exit(2) after a
\* server error, and the status of a main that returns.
ExitConfig == 1
ExitError == 2
ExitOK == 0

(* ------------------------------ processes ----------------------------- *)

Main == "main"

Workers == {"w1", "w2"}

\* The request goroutines of StreamSpec: a third one beside those of Spec.
Handlers == Workers \cup {"w3"}

Procs == {Main} \cup Handlers

NoProc == "none"

(* ------------------------------- strings ------------------------------ *)

\* The bytes of the strings used as names, as Go's string comparison reads them.
Bytes(s) ==
  CASE s = "" -> <<>>
    [] s = "a" -> <<97>>
    [] s = "b" -> <<98>>
    [] s = SeedName ->
         <<100, 101, 98, 117, 103, 45, 115, 101, 99, 114, 101, 116, 46, 116, 120, 116>>

Min(a, b) == IF a < b THEN a ELSE b

\* Go's s < t on strings: lexicographic on bytes, a proper prefix is smaller.
StrLess(s, t) ==
  LET bs == Bytes(s)
      bt == Bytes(t)
      n == Min(Len(bs), Len(bt))
      Diff == {i \in 1..n : bs[i] # bt[i]}
  IN IF Diff = {}
       THEN Len(bs) < Len(bt)
       ELSE LET i == CHOOSE j \in Diff : \A k \in Diff : j <= k
            IN bs[i] < bt[i]

(* ------------------------------- records ------------------------------ *)

Secret(name, value, version, mode) ==
  [Name |-> name, Value |-> value, Version |-> version, Mode |-> mode]

\* The zero value of struct Secret: what a freshly assigned map slot holds.
ZeroSecret == Secret("", "", "", 0)

File(sec) == [Path |-> sec.Name, Mode |-> sec.Mode, Contents |-> sec.Value]

ObjectVersion(sec) == [Id |-> sec.Name, Version |-> sec.Version]

NoArgs == [op |-> "none"]

NoReq == [kind |-> "none"]

NoResp == [proto |-> "none"]

NoSnap == [taken |-> FALSE]

NoBatch == [open |-> FALSE, alone |-> FALSE]

\* A bulk import another writer has run beside.
Overtaken == [open |-> TRUE, alone |-> FALSE]

(* ------------------------------ variables ----------------------------- *)

VARIABLES
  secrets,   \* MemoryStore.secrets: a map from name to Secret
  mu,        \* MemoryStore.mu: w = the writer that holds or awaits the lock,
             \*   r = readers inside, rq = readers parked in RLock,
             \*   sem = permits of the readers' semaphore not yet taken
  pc,        \* where each goroutine is
  req,       \* the request a worker is serving
  args,      \* the arguments of the store call in progress
  items,     \* handleBulk: the decoded items not yet applied
  iter,      \* List / GetFiles: map keys the range loop has yet to visit
  list,      \* List: the local slice
  files,     \* GetFiles: the local files slice
  versions,  \* GetFiles: the local versions slice
  resp,      \* the response written to the client
  accepted,  \* number of requests accepted so far
  batch,     \* history: for a bulk import in progress, the store at its
             \*   start, while no other writer has taken the lock since
  last,      \* history: per name, the record of the Set that took the write
             \*   lock last; no entry when that was a Delete, or nothing
  snap,      \* history: the store (and last) at the instant the store call
             \*   in progress took the lock
  life       \* main and the two server loops: where main, each loop and each
             \*   shutdown goroutine is, the pending signal, the errgroup's
             \*   context and first error, the exit code once exited

vars ==
  <<secrets, mu, pc, req, args, items, iter, list, files, versions, resp,
    accepted, batch, last, snap, life>>

proc_vars == <<req, items, iter, list, files, versions, resp, accepted>>

(* -------------------------------- maps -------------------------------- *)

EmptyMap == [k \in {} |-> ZeroSecret]

\* m[k] = v on a Go map.
MapPut(m, k, v) == [x \in DOMAIN m \cup {k} |-> IF x = k THEN v ELSE m[x]]

\* delete(m, k) on a Go map: no effect when k is absent.
MapDelete(m, k) == [x \in DOMAIN m \ {k} |-> m[x]]

Records(m) == {m[k] : k \in DOMAIN m}

(* ------------------------------ sync.RWMutex -------------------------- *)

\* Variant: a writer that does not wait for the writers' mutex.
MuLockUnserialized(p) == mu' = [mu EXCEPT !.w = p]

\* Lock, first half: take the writers' mutex; from now on new readers park.
MuLock(p) ==
  /\ mu.w = NoProc
  /\ mu' = [mu EXCEPT !.w = p]

\* Lock, second half: the readers counted when the writer announced itself
\* have all left, those inside and those who had a permit of the readers'
\* semaphore to take.  The writer that finds none does not wait at all.
MuLockGranted(p) == mu.w = p /\ mu.r = {} /\ mu.sem = 0

\* Variant: the uncontended path looks at the writers' mutex only.
MuLockFastIgnoringReaders(p) == mu.w = NoProc

MuLockFast(p) == mu.w = NoProc /\ mu.r = {} /\ mu.sem = 0

\* Unlock: one permit of the readers' semaphore is released for each parked
\* reader, and the writers' mutex is freed.  The permits bear no name.
MuUnlock(p) ==
  mu' = [mu EXCEPT !.w = NoProc, !.sem = @ + Cardinality(mu.rq)]

\* RLock: enter at once unless a writer holds or awaits the lock; then park.
MuRLock(p) ==
  IF mu.w = NoProc
    THEN mu' = [mu EXCEPT !.r = @ \cup {p}]
    ELSE mu' = [mu EXCEPT !.rq = @ \cup {p}]

\* RLock returns to a parked reader that takes a permit of the readers'
\* semaphore: any parked reader may take it, also one that parked after the
\* Unlock that released it.
MuRLockGranted(p) ==
  /\ p \in mu.rq
  /\ mu.sem > 0
  /\ mu' = [mu EXCEPT !.r = @ \cup {p}, !.rq = @ \ {p}, !.sem = @ - 1]

\* Variant: a reader that never looks for a writer.
MuRLockFastUnchecked(p) == TRUE

MuRLockFast(p) == mu.w = NoProc

MuRUnlock(p) == mu' = [mu EXCEPT !.r = @ \ {p}]

(* ------------------------------- helpers ------------------------------ *)

Goto(p, l) == pc' = [pc EXCEPT ![p] = l]

SetArgs(name, value, version, mode) ==
  [op |-> "set", name |-> name, value |-> value, version |-> version, mode |-> mode]

DeleteArgs(name) == [op |-> "delete", name |-> name]

\* Where MemoryStore.Set returns to: main, handleUpdate or handleBulk's loop.
SetReturn(p) ==
  IF p = Main THEN "serving"
  ELSE IF req[p].path = "/update" THEN "upd_respond"
  ELSE "bulk_loop"

(* --------------------------- MemoryStore.Set -------------------------- *)

\* The history of a Set that has just taken the write lock: it is now the
\* last writer of its name.
Snapshot == [taken |-> TRUE, store |-> secrets, last |-> last]

\* A writer has just taken the write lock: the bulk imports of the other
\* goroutines no longer run alone.
Overtakes(p) ==
  batch' = [q \in Procs |-> IF q # p /\ batch[q].open THEN Overtaken ELSE batch[q]]

SetTakesLock(p) ==
  /\ last' = MapPut(last, args[p].name,
                    Secret(args[p].name, args[p].value, args[p].version, args[p].mode))
  /\ snap' = [snap EXCEPT ![p] = Snapshot]
  /\ Overtakes(p)

\* s.mu.Lock(): it returns at once when no reader is inside.
SetLock(p) ==
  /\ pc[p] = "set_lock"
  /\ MuLock(p)
  /\ IF MuLockFast(p)
       THEN Goto(p, "set_slot") /\ SetTakesLock(p)
       ELSE Goto(p, "set_lockwait") /\ UNCHANGED <<last, snap, batch>>
  /\ UNCHANGED <<secrets, args, proc_vars, life>>

\* s.mu.Lock() returns after the wait for the readers.
SetLockWait(p) ==
  /\ pc[p] = "set_lockwait"
  /\ MuLockGranted(p)
  /\ Goto(p, "set_slot")
  /\ SetTakesLock(p)
  /\ UNCHANGED <<secrets, mu, args, proc_vars, life>>

\* Variant: the map is made anew when it holds two records already.
SetSlotEvicting(p) ==
  /\ pc[p] = "set_slot"
  /\ secrets' = IF args[p].name \in DOMAIN secrets
                  THEN secrets
                  ELSE IF Cardinality(DOMAIN secrets) >= 2
                    THEN MapPut(EmptyMap, args[p].name, ZeroSecret)
                    ELSE MapPut(secrets, args[p].name, ZeroSecret)
  /\ Goto(p, "set_name")
  /\ UNCHANGED <<mu, args, last, snap, proc_vars, batch, life>>

\* s.secrets[name] = ...: find the slot of name, or insert a zeroed one.
SetSlot(p) ==
  /\ pc[p] = "set_slot"
  /\ secrets' = IF args[p].name \in DOMAIN secrets
                  THEN secrets
                  ELSE MapPut(secrets, args[p].name, ZeroSecret)
  /\ Goto(p, "set_name")
  /\ UNCHANGED <<mu, args, last, snap, proc_vars, batch, life>>

\* One field of the struct literal stored into the slot.
StoreField(p, field, v) ==
  secrets' = IF args[p].name \in DOMAIN secrets
               THEN [secrets EXCEPT ![args[p].name][field] = v]
               ELSE secrets

\* Variant: the Name field left out of the struct literal.
SetNameOmitted(p) ==
  /\ pc[p] = "set_name"
  /\ Goto(p, "set_value")
  /\ UNCHANGED <<secrets, mu, args, last, snap, proc_vars, batch, life>>

SetName(p) ==
  /\ pc[p] = "set_name"
  /\ StoreField(p, "Name", args[p].name)
  /\ Goto(p, "set_value")
  /\ UNCHANGED <<mu, args, last, snap, proc_vars, batch, life>>

\* Variant: a record that exists keeps its value.
SetValueOnInsert(p) ==
  /\ pc[p] = "set_value"
  /\ IF args[p].name \in DOMAIN snap[p].store
       THEN UNCHANGED secrets
       ELSE StoreField(p, "Value", args[p].value)
  /\ Goto(p, "set_version")
  /\ UNCHANGED <<mu, args, last, snap, proc_vars, batch, life>>

SetValue(p) ==
  /\ pc[p] = "set_value"
  /\ StoreField(p, "Value", args[p].value)
  /\ Goto(p, "set_version")
  /\ UNCHANGED <<mu, args, last, snap, proc_vars, batch, life>>

\* Variant: the Version field left out of the struct literal.
SetVersionOmitted(p) ==
  /\ pc[p] = "set_version"
  /\ Goto(p, "set_mode")
  /\ UNCHANGED <<secrets, mu, args, last, snap, proc_vars, batch, life>>

SetVersion(p) ==
  /\ pc[p] = "set_version"
  /\ StoreField(p, "Version", args[p].version)
  /\ Goto(p, "set_mode")
  /\ UNCHANGED <<mu, args, last, snap, proc_vars, batch, life>>

\* Variant: the mode is added to the mode the record had.
SetModeAdding(p) ==
  /\ pc[p] = "set_mode"
  /\ StoreField(p, "Mode",
                (IF args[p].name \in DOMAIN snap[p].store
                   THEN snap[p].store[args[p].name].Mode ELSE 0) + args[p].mode)
  /\ Goto(p, "set_unlock")
  /\ UNCHANGED <<mu, args, last, snap, proc_vars, batch, life>>

SetMode(p) ==
  /\ pc[p] = "set_mode"
  /\ StoreField(p, "Mode", args[p].mode)
  /\ Goto(p, "set_unlock")
  /\ UNCHANGED <<mu, args, last, snap, proc_vars, batch, life>>

\* Variant: inside a batch the lock is kept until the last element is stored.
SetUnlockAtBatchEnd(p) ==
  /\ pc[p] = "set_unlock"
  /\ IF SetReturn(p) = "bulk_loop" /\ items[p] # <<>>
       THEN UNCHANGED mu
       ELSE MuUnlock(p)
  /\ Goto(p, SetReturn(p))
  /\ args' = [args EXCEPT ![p] = NoArgs]
  /\ snap' = [snap EXCEPT ![p] = NoSnap]
  /\ UNCHANGED <<secrets, last, proc_vars, batch, life>>

\* defer s.mu.Unlock(), and the return to the caller.
SetUnlock(p) ==
  /\ pc[p] = "set_unlock"
  /\ MuUnlock(p)
  /\ Goto(p, SetReturn(p))
  /\ args' = [args EXCEPT ![p] = NoArgs]
  /\ snap' = [snap EXCEPT ![p] = NoSnap]
  /\ UNCHANGED <<secrets, last, proc_vars, batch, life>>

(* -------------------------- MemoryStore.Delete ------------------------ *)

\* The history of a Delete that has just taken the write lock.
DeleteTakesLock(p) ==
  /\ last' = MapDelete(last, args[p].name)
  /\ snap' = [snap EXCEPT ![p] = Snapshot]
  /\ Overtakes(p)

DeleteLock(p) ==
  /\ pc[p] = "del_lock"
  /\ MuLock(p)
  /\ IF MuLockFast(p)
       THEN Goto(p, "del_delete") /\ DeleteTakesLock(p)
       ELSE Goto(p, "del_lockwait") /\ UNCHANGED <<last, snap, batch>>
  /\ UNCHANGED <<secrets, args, proc_vars, life>>

DeleteLockWait(p) ==
  /\ pc[p] = "del_lockwait"
  /\ MuLockGranted(p)
  /\ Goto(p, "del_delete")
  /\ DeleteTakesLock(p)
  /\ UNCHANGED <<secrets, mu, args, proc_vars, life>>

\* Variant: a name the map does not hold is reported by clearing the map.
DeleteEntryClearing(p) ==
  /\ pc[p] = "del_delete"
  /\ secrets' = IF args[p].name \in DOMAIN secrets
                  THEN MapDelete(secrets, args[p].name)
                  ELSE EmptyMap
  /\ Goto(p, "del_unlock")
  /\ UNCHANGED <<mu, args, last, snap, proc_vars, batch, life>>

\* delete(s.secrets, name)
DeleteEntry(p) ==
  /\ pc[p] = "del_delete"
  /\ secrets' = MapDelete(secrets, args[p].name)
  /\ Goto(p, "del_unlock")
  /\ UNCHANGED <<mu, args, last, snap, proc_vars, batch, life>>

DeleteUnlock(p) ==
  /\ pc[p] = "del_unlock"
  /\ MuUnlock(p)
  /\ Goto(p, "del_respond")
  /\ args' = [args EXCEPT ![p] = NoArgs]
  /\ snap' = [snap EXCEPT ![p] = NoSnap]
  /\ UNCHANGED <<secrets, last, proc_vars, batch, life>>

(* ------------------------------ sort.Slice ---------------------------- *)

\* x put before the first element of the sorted slice s whose name is greater.
RECURSIVE InsertByName(_, _)
InsertByName(s, x) ==
  IF s = <<>> THEN <<x>>
  ELSE IF StrLess(x.Name, s[1].Name) THEN <<x>> \o s
  ELSE <<s[1]>> \o InsertByName(Tail(s), x)

\* Variant: the slice left in the order the map was ranged over.
SortByNameSkipped(s) == s

\* sort.Slice(list, func(i, j) { return list[i].Name < list[j].Name })
RECURSIVE SortByName(_)
SortByName(s) ==
  IF s = <<>> THEN <<>>
  ELSE InsertByName(SortByName(Tail(s)), s[1])

(* --------------------------- MemoryStore.List ------------------------- *)

\* Variant: a Mount that returns only the names its attributes list.
ReaderEntersSelecting(p) ==
  /\ iter' = [iter EXCEPT ![p] =
                IF req[p].kind = "mount" /\ DOMAIN req[p].attributes # {}
                  THEN {k \in DOMAIN secrets :
                          \E a \in DOMAIN req[p].attributes : req[p].attributes[a] = k}
                  ELSE DOMAIN secrets]
  /\ snap' = [snap EXCEPT ![p] = [taken |-> TRUE, store |-> secrets, last |-> last]]

\* A reader has just taken the read lock: the range loop starts over the keys
\* the map holds, and the history records the store of this instant.
ReaderEnters(p) ==
  /\ iter' = [iter EXCEPT ![p] = DOMAIN secrets]
  /\ snap' = [snap EXCEPT ![p] = Snapshot]

\* s.mu.RLock(): it returns at once unless a writer holds or awaits the lock.
ListRLock(p) ==
  /\ pc[p] = "list_rlock"
  /\ MuRLock(p)
  /\ IF MuRLockFast(p)
       THEN Goto(p, "list_range") /\ ReaderEnters(p)
       ELSE Goto(p, "list_rlockwait") /\ UNCHANGED <<iter, snap, batch>>
  /\ UNCHANGED <<secrets, args, last, req, items, list, files, versions, resp,
                 accepted, batch, life>>

\* s.mu.RLock() returns after the wait for the writer.
ListRLockWait(p) ==
  /\ pc[p] = "list_rlockwait"
  /\ MuRLockGranted(p)
  /\ Goto(p, "list_range")
  /\ ReaderEnters(p)
  /\ UNCHANGED <<secrets, args, last, req, items, list, files, versions, resp,
                 accepted, batch, life>>

\* One iteration of for _, v := range s.secrets: Go visits the keys in any order.
ListVisit(p) ==
  /\ pc[p] = "list_range"
  /\ \E k \in iter[p] :
       /\ iter' = [iter EXCEPT ![p] = @ \ {k}]
       /\ list' = [list EXCEPT ![p] =
                     IF k \in DOMAIN secrets THEN Append(@, secrets[k]) ELSE @]
  /\ UNCHANGED <<secrets, mu, pc, args, last, snap, req, items, files, versions,
                 resp, accepted, batch, life>>

\* The loop is over: sort.Slice.
ListSort(p) ==
  /\ pc[p] = "list_range"
  /\ iter[p] = {}
  /\ list' = [list EXCEPT ![p] = SortByName(@)]
  /\ Goto(p, "list_runlock")
  /\ UNCHANGED <<secrets, mu, args, last, snap, req, items, iter, files, versions,
                 resp, accepted, batch, life>>

\* Variant: List returns to handleIndex without its RUnlock.
ListRUnlockOmitted(p) ==
  /\ pc[p] = "list_runlock"
  /\ Goto(p, "idx_render")
  /\ UNCHANGED <<secrets, mu, args, last, snap, proc_vars, batch, life>>

\* defer s.mu.RUnlock(), and the return to handleIndex.
ListRUnlock(p) ==
  /\ pc[p] = "list_runlock"
  /\ MuRUnlock(p)
  /\ Goto(p, "idx_render")
  /\ UNCHANGED <<secrets, args, last, snap, proc_vars, batch, life>>

(* ------------------------- MemoryStore.GetFiles ----------------------- *)

GetFilesRLock(p) ==
  /\ pc[p] = "gf_rlock"
  /\ MuRLock(p)
  /\ IF MuRLockFast(p)
       THEN Goto(p, "gf_range") /\ ReaderEnters(p)
       ELSE Goto(p, "gf_rlockwait") /\ UNCHANGED <<iter, snap, batch>>
  /\ UNCHANGED <<secrets, args, last, req, items, list, files, versions, resp,
                 accepted, batch, life>>

GetFilesRLockWait(p) ==
  /\ pc[p] = "gf_rlockwait"
  /\ MuRLockGranted(p)
  /\ Goto(p, "gf_range")
  /\ ReaderEnters(p)
  /\ UNCHANGED <<secrets, args, last, req, items, list, files, versions, resp,
                 accepted, batch, life>>

\* Variant: the version is put in front of the slice instead of appended.
GetFilesVisitPrepending(p) ==
  /\ pc[p] = "gf_range"
  /\ \E k \in iter[p] :
       /\ iter' = [iter EXCEPT ![p] = @ \ {k}]
       /\ files' = [files EXCEPT ![p] =
                      IF k \in DOMAIN secrets THEN Append(@, File(secrets[k])) ELSE @]
       /\ versions' = [versions EXCEPT ![p] =
                         IF k \in DOMAIN secrets
                           THEN <<ObjectVersion(secrets[k])>> \o @ ELSE @]
  /\ UNCHANGED <<secrets, mu, pc, args, last, snap, req, items, list, resp, accepted,
                 batch, life>>

\* One iteration of for _, sec := range s.secrets.
GetFilesVisit(p) ==
  /\ pc[p] = "gf_range"
  /\ \E k \in iter[p] :
       /\ iter' = [iter EXCEPT ![p] = @ \ {k}]
       /\ files' = [files EXCEPT ![p] =
                      IF k \in DOMAIN secrets THEN Append(@, File(secrets[k])) ELSE @]
       /\ versions' = [versions EXCEPT ![p] =
                         IF k \in DOMAIN secrets
                           THEN Append(@, ObjectVersion(secrets[k])) ELSE @]
  /\ UNCHANGED <<secrets, mu, pc, args, last, snap, req, items, list, resp, accepted,
                 batch, life>>

\* Variant: GetFiles empties the map once it has ranged over it.
GetFilesRUnlockDraining(p) ==
  /\ pc[p] = "gf_range"
  /\ iter[p] = {}
  /\ MuRUnlock(p)
  /\ Goto(p, "mount_respond")
  /\ secrets' = [k \in {} |-> ZeroSecret]
  /\ UNCHANGED <<args, last, snap, proc_vars, batch, life>>

\* The loop is over; defer s.mu.RUnlock(), and the return to Mount.
GetFilesRUnlock(p) ==
  /\ pc[p] = "gf_range"
  /\ iter[p] = {}
  /\ MuRUnlock(p)
  /\ Goto(p, "mount_respond")
  /\ UNCHANGED <<secrets, args, last, snap, proc_vars, batch, life>>

(* ------------------------------- requests ----------------------------- *)

\* Marks a form field the client did not send.
Absent == "<absent>"

\* The form of a request: the fields the client sent, by name.
MkForm(f) == [k \in {x \in DOMAIN f : f[x] # Absent} |-> f[k]]

\* r.FormValue(key): the field's value, "" when the field was not sent.
FormValue(form, key) == IF key \in DOMAIN form THEN form[key] ELSE ""

HttpRequest(path, method, malformed, form) ==
  [kind |-> "http", path |-> path, method |-> method, malformed |-> malformed,
   form |-> form]

MountRequests ==
  { [kind |-> "mount", targetPath |-> "/mnt/a", attributes |-> <<>>],
    [kind |-> "mount", targetPath |-> "/mnt/b",
     attributes |-> [secrets |-> "a"]] }

VersionRequests ==
  { [kind |-> "version", version |-> v] : v \in {"v1alpha1", "v0"} }

UpdateForms ==
  { MkForm([name |-> "a", value |-> "x", version |-> "v2", mode |-> "384"]),
    MkForm([name |-> "a", value |-> "y", version |-> Absent, mode |-> Absent]),
    MkForm([name |-> SeedName, value |-> "y", version |-> "v2", mode |-> "abc"]),
    MkForm([name |-> "a", value |-> "", version |-> "v2", mode |-> "384"]),
    MkForm([name |-> "a", value |-> Absent, version |-> Absent, mode |-> Absent]),
    MkForm([name |-> "", value |-> "x", version |-> "v2", mode |-> Absent]),
    MkForm([name |-> Absent, value |-> "x", version |-> Absent, mode |-> Absent]) }

UpdateRequests ==
  { HttpRequest("/update", "POST", FALSE, f) : f \in UpdateForms }
    \cup { HttpRequest("/update", "GET", FALSE, [name |-> "a", value |-> "x"]),
           HttpRequest("/update", "POST", TRUE, [name |-> "a", value |-> "x"]) }

DeleteRequests ==
  { HttpRequest("/delete", "POST", FALSE, MkForm([name |-> n])) :
      n \in {Absent, "", "a", SeedName} }
    \cup { HttpRequest("/delete", "GET", FALSE, [name |-> "a"]) }

IndexRequests == { HttpRequest("/", "GET", FALSE, <<>>) }

(* ----------------------- ProviderServer.Mount / Version --------------- *)

Accepting(p) ==
  /\ p \in Handlers
  /\ pc[p] = "idle"
  /\ pc[Main] = "serving"
  /\ accepted < MaxRequests

\* The server a request arrives at is in its accept loop: grpcServer.Serve
\* or server.ListenAndServe is running and GracefulStop or Shutdown has not
\* closed its listener.
Listening(r) ==
  IF r.kind = "http"
    THEN life.http = "serving" /\ life.hstop = "waiting"
    ELSE life.grpc = "serving" /\ life.gstop = "waiting"

Accept(p, r) ==
  /\ Listening(r)
  /\ req' = [req EXCEPT ![p] = r]
  /\ accepted' = accepted + 1

Respond(p, r) ==
  /\ resp' = [resp EXCEPT ![p] = r]
  /\ Goto(p, "done")

HttpStatus(code) == [proto |-> "http", status |-> code]

\* Mount: log the request, then call s.store.GetFiles().
Mount(p) ==
  /\ Accepting(p)
  /\ \E r \in MountRequests : Accept(p, r)
  /\ Goto(p, "gf_rlock")
  /\ UNCHANGED <<secrets, mu, args, last, snap, items, iter, list, files, versions,
                 resp, batch, life>>

\* Mount returns the MountResponse built from what GetFiles returned.
MountRespond(p) ==
  /\ pc[p] = "mount_respond"
  /\ Respond(p, [proto |-> "grpc", code |-> "OK", files |-> files[p],
                 versions |-> versions[p]])
  /\ UNCHANGED <<secrets, mu, args, last, snap, req, items, iter, list, files,
                 versions, accepted, batch, life>>

VersionResponse ==
  [proto |-> "grpc", code |-> "OK", version |-> "v1alpha1",
   runtimeName |-> "csi-debugger-provider", runtimeVersion |-> "0.0.1"]

\* Variant: Version reads the store's lock state before it answers.
VersionBehindLock(p) ==
  /\ Accepting(p)
  /\ mu.w = NoProc
  /\ \E r \in VersionRequests : Accept(p, r)
  /\ Respond(p, VersionResponse)
  /\ UNCHANGED <<secrets, mu, args, last, snap, items, iter, list, files, versions,
                 batch, life>>

Version(p) ==
  /\ Accepting(p)
  /\ \E r \in VersionRequests : Accept(p, r)
  /\ Respond(p, VersionResponse)
  /\ UNCHANGED <<secrets, mu, args, last, snap, items, iter, list, files, versions,
                 batch, life>>

(* --------------------------- WebServer handlers ----------------------- *)

\* handleIndex: call w.store.List().
HandleIndex(p) ==
  /\ Accepting(p)
  /\ \E r \in IndexRequests : Accept(p, r)
  /\ Goto(p, "list_rlock")
  /\ UNCHANGED <<secrets, mu, args, last, snap, items, iter, list, files, versions,
                 resp, batch, life>>

\* handleIndex: the template is executed over the slice List returned.
IndexRender(p) ==
  /\ pc[p] = "idx_render"
  /\ Respond(p, [proto |-> "http", status |-> StatusOK, body |-> list[p]])
  /\ UNCHANGED <<secrets, mu, args, last, snap, req, items, iter, list, files,
                 versions, accepted, batch, life>>

\* Variant: handleUpdate parses the form's mode field.
UpdateModeFromForm(form) ==
  IF "mode" \in DOMAIN form /\ form["mode"] = "384" THEN 384 ELSE DefaultMode

\* The mode handleUpdate stores: the constant, whatever the form says.
UpdateMode(form) == DefaultMode

\* Variant: only the name is required.
UpdateRejectNameOnly(r) ==
  IF r.method # "POST" THEN StatusMethodNotAllowed
  ELSE IF r.malformed THEN StatusBadRequest
  ELSE IF FormValue(r.form, "name") = "" THEN StatusBadRequest
  ELSE 0

\* handleUpdate's checks: the status it answers with, 0 when it goes on to Set.
UpdateReject(r) ==
  IF r.method # "POST" THEN StatusMethodNotAllowed
  ELSE IF r.malformed THEN StatusBadRequest
  ELSE IF FormValue(r.form, "name") = "" \/ FormValue(r.form, "value") = ""
    THEN StatusBadRequest
  ELSE 0

HandleUpdate(p) ==
  /\ Accepting(p)
  /\ \E r \in UpdateRequests :
       /\ Accept(p, r)
       /\ IF UpdateReject(r) # 0
            THEN /\ Respond(p, HttpStatus(UpdateReject(r)))
                 /\ UNCHANGED args
            ELSE /\ args' = [args EXCEPT ![p] =
                               SetArgs(FormValue(r.form, "name"),
                                       FormValue(r.form, "value"),
                                       FormValue(r.form, "version"),
                                       UpdateMode(r.form))]
                 /\ Goto(p, "set_lock")
                 /\ UNCHANGED resp
  /\ UNCHANGED <<secrets, mu, last, snap, items, iter, list, files, versions, batch, life>>

\* handleUpdate after Set: log, then redirect to /.
UpdateRespond(p) ==
  /\ pc[p] = "upd_respond"
  /\ Respond(p, HttpStatus(StatusSeeOther))
  /\ UNCHANGED <<secrets, mu, args, last, snap, req, items, iter, list, files,
                 versions, accepted, batch, life>>

\* Variant: handleDelete without its method check.
DeleteRejectNothing(r) == 0

\* handleDelete's check: the status it answers with, 0 when it goes on to Delete.
DeleteReject(r) == IF r.method # "POST" THEN StatusMethodNotAllowed ELSE 0

HandleDelete(p) ==
  /\ Accepting(p)
  /\ \E r \in DeleteRequests :
       /\ Accept(p, r)
       /\ IF DeleteReject(r) # 0
            THEN /\ Respond(p, HttpStatus(DeleteReject(r)))
                 /\ UNCHANGED args
            ELSE /\ args' = [args EXCEPT ![p] = DeleteArgs(FormValue(r.form, "name"))]
                 /\ Goto(p, "del_lock")
                 /\ UNCHANGED resp
  /\ UNCHANGED <<secrets, mu, last, snap, items, iter, list, files, versions, batch, life>>

DeleteRespond(p) ==
  /\ pc[p] = "del_respond"
  /\ Respond(p, HttpStatus(StatusSeeOther))
  /\ UNCHANGED <<secrets, mu, args, last, snap, req, items, iter, list, files,
                 versions, accepted, batch, life>>

(* ----------------------------- json.Unmarshal ------------------------- *)

\* A JSON text is given by its structure: whether it scans (syntax), the
\* kind of its top-level value, and the elements when that is an array.
JString(s) == [t |-> "string", s |-> s]

JNumber == [t |-> "number", s |-> ""]

JAbsent == [t |-> "absent", s |-> ""]

JObject(name, value, version) ==
  [kind |-> "object", name |-> name, value |-> value, version |-> version]

JArray(elems) == [syntax |-> TRUE, top |-> "array", elems |-> elems]

\* The same text cut short, or with a stray token after the elements.
JBroken(elems) == [syntax |-> FALSE, top |-> "array", elems |-> elems]

\* The empty text: what FormValue("json_data") is when the field was not sent.
JEmptyText == [syntax |-> FALSE, top |-> "", elems |-> <<>>]

\* Elements that decode: a full object, an object whose value is empty and
\* whose version is missing, and an object with no name.
GoodElems ==
  { JObject(JString("a"), JString("x"), JString("v1")),
    JObject(JString("a"), JString(""), JAbsent),
    JObject(JAbsent, JString("y"), JAbsent) }

\* An element of the wrong type: "name" is a number.
BadElem == JObject(JNumber, JString("x"), JString("v1"))

\* Every array of at most two such elements.
ShortArrays == UNION { [1..n -> GoodElems] : n \in 0..2 }

\* Longer arrays: three names of which one comes back with another value,
\* and one name stored three times.
LongArrays ==
  { <<JObject(JString("a"), JString("x"), JString("v1")),
      JObject(JAbsent, JString("y"), JAbsent),
      JObject(JString("a"), JString(""), JAbsent)>>,
    <<JObject(JAbsent, JString("y"), JAbsent),
      JObject(JString("a"), JString("x"), JString("v1")),
      JObject(JString("a"), JString("x"), JString("v1"))>> }

\* The arrays a request may carry: those of at most MaxBulkLen elements.
GoodArrays == { a \in ShortArrays \cup LongArrays : Len(a) <= MaxBulkLen }

\* A text that does not decode after a well-formed start: a bad element
\* after good ones, a text cut short, a text that is not an array.
BulkTexts ==
  { JArray(e) : e \in GoodArrays }
    \cup { JArray(Append(e, BadElem)) : e \in { a \in GoodArrays : Len(a) = 1 } }
    \cup { JBroken(e) : e \in { a \in GoodArrays : Len(a) = 1 } }
    \cup { [syntax |-> TRUE, top |-> "null", elems |-> <<>>],
           [syntax |-> TRUE, top |-> "object", elems |-> <<>>] }

\* A string field of the item struct: a JSON string is stored, an absent key
\* leaves the zero value, anything else is a type error and leaves it too.
DecodeField(j) == IF j.t = "string" THEN j.s ELSE ""

DecodeItem(e) ==
  [Name |-> DecodeField(e.name), Value |-> DecodeField(e.value),
   Version |-> DecodeField(e.version)]

TypeError(e) ==
  \/ e.kind # "object"
  \/ \E j \in {e.name, e.value, e.version} : j.t = "number"

\* Variant: type errors are not treated as a failure of the decoding.
UnmarshalIgnoringTypes(data) ==
  IF ~data.syntax THEN [err |-> TRUE, items |-> <<>>]
  ELSE IF data.top = "null" THEN [err |-> FALSE, items |-> <<>>]
  ELSE IF data.top # "array" THEN [err |-> TRUE, items |-> <<>>]
  ELSE [err |-> FALSE,
        items |-> [i \in 1..Len(data.elems) |-> DecodeItem(data.elems[i])]]

\* json.Unmarshal([]byte(data), &items): the whole text is scanned first; a
\* text that does not scan decodes nothing.  null leaves items nil.  Type
\* errors are returned after the rest has been decoded.
Unmarshal(data) ==
  IF ~data.syntax THEN [err |-> TRUE, items |-> <<>>]
  ELSE IF data.top = "null" THEN [err |-> FALSE, items |-> <<>>]
  ELSE IF data.top # "array" THEN [err |-> TRUE, items |-> <<>>]
  ELSE [err |-> \E i \in 1..Len(data.elems) : TypeError(data.elems[i]),
        items |-> [i \in 1..Len(data.elems) |-> DecodeItem(data.elems[i])]]

(* ---------------------------- WebServer.handleBulk -------------------- *)

JsonData(form) == IF "json_data" \in DOMAIN form THEN form["json_data"] ELSE JEmptyText

BulkRequests ==
  { HttpRequest("/bulk", "POST", FALSE, [json_data |-> d]) : d \in BulkTexts }
    \cup { HttpRequest("/bulk", "POST", FALSE, <<>>),
           HttpRequest("/bulk", "GET", FALSE,
                       [json_data |-> JArray(<<JObject(JString("a"), JString("x"),
                                                        JString("v1"))>>)]) }

\* handleBulk's checks: the status it answers with, 0 when it goes on to the loop.
BulkReject(r) ==
  IF r.method # "POST" THEN StatusMethodNotAllowed
  ELSE IF Unmarshal(JsonData(r.form)).err THEN StatusBadRequest
  ELSE 0

\* The history of a bulk import that starts its loop: the store it starts
\* from, unless a writer is already at the lock.
BatchOpens(p) ==
  batch' = [batch EXCEPT ![p] =
              IF mu.w # NoProc THEN Overtaken
              ELSE [open |-> TRUE, alone |-> TRUE, store |-> secrets]]

HandleBulk(p) ==
  /\ Accepting(p)
  /\ \E r \in BulkRequests :
       /\ Accept(p, r)
       /\ IF BulkReject(r) # 0
            THEN /\ Respond(p, HttpStatus(BulkReject(r)))
                 /\ UNCHANGED <<items, batch>>
            ELSE /\ items' = [items EXCEPT ![p] = Unmarshal(JsonData(r.form)).items]
                 /\ BatchOpens(p)
                 /\ Goto(p, "bulk_loop")
                 /\ UNCHANGED resp
  /\ UNCHANGED <<secrets, mu, args, last, snap, iter, list, files, versions, life>>

\* Variant: the loop takes the items from the end of the slice.
BulkNextFromEnd(p) ==
  /\ pc[p] = "bulk_loop"
  /\ items[p] # <<>>
  /\ args' = [args EXCEPT ![p] =
                SetArgs(items[p][Len(items[p])].Name, items[p][Len(items[p])].Value,
                        items[p][Len(items[p])].Version, DefaultMode)]
  /\ items' = [items EXCEPT ![p] = SubSeq(@, 1, Len(@) - 1)]
  /\ Goto(p, "set_lock")
  /\ UNCHANGED <<secrets, mu, last, snap, req, iter, list, files, versions, resp,
                 accepted, batch, life>>

\* for _, i := range items { w.store.Set(i.Name, i.Value, i.Version, 420) }
BulkNext(p) ==
  /\ pc[p] = "bulk_loop"
  /\ items[p] # <<>>
  /\ args' = [args EXCEPT ![p] =
                SetArgs(items[p][1].Name, items[p][1].Value, items[p][1].Version,
                        DefaultMode)]
  /\ items' = [items EXCEPT ![p] = Tail(@)]
  /\ Goto(p, "set_lock")
  /\ UNCHANGED <<secrets, mu, last, snap, req, iter, list, files, versions, resp,
                 accepted, batch, life>>

\* The loop is over: log, then redirect to /.
BulkRespond(p) ==
  /\ pc[p] = "bulk_loop"
  /\ items[p] = <<>>
  /\ Respond(p, HttpStatus(StatusSeeOther))
  /\ UNCHANGED <<secrets, mu, args, last, snap, req, items, iter, list, files,
                 versions, accepted, batch, life>>

\* The handler returns and its goroutine ends.
Finish(p) ==
  /\ pc[p] = "done"
  /\ Goto(p, "idle")
  /\ req' = [req EXCEPT ![p] = NoReq]
  /\ resp' = [resp EXCEPT ![p] = NoResp]
  /\ list' = [list EXCEPT ![p] = <<>>]
  /\ files' = [files EXCEPT ![p] = <<>>]
  /\ versions' = [versions EXCEPT ![p] = <<>>]
  /\ snap' = [snap EXCEPT ![p] = NoSnap]
  /\ batch' = [batch EXCEPT ![p] = NoBatch]
  /\ UNCHANGED <<secrets, mu, args, last, items, iter, accepted, life>>

(* ---------------------------------- main ------------------------------ *)

\* Variant: main starts the servers without seeding the store.
MainSeedOmitted ==
  /\ life.main = "seed"
  /\ pc[Main] = "main_seed"
  /\ Goto(Main, "serving")
  /\ UNCHANGED <<secrets, mu, args, last, snap, proc_vars, batch, life>>

\* store.Set("debug-secret.txt", "Initial value loaded at startup", "v1", 420)
MainSeed ==
  /\ life.main = "seed"
  /\ pc[Main] = "main_seed"
  /\ args' = [args EXCEPT ![Main] = SetArgs(SeedName, SeedValue, SeedVersion, DefaultMode)]
  /\ Goto(Main, "set_lock")
  /\ UNCHANGED <<secrets, mu, last, snap, proc_vars, batch, life>>

(* ----------------------- main and the server loops -------------------- *)

\* A nil error, and the errors a server loop or g.Wait can return.
NoErr == ""
ErrCanceled == "context canceled"
ErrServerClosed == "http: Server closed"
ErrServerStopped == "grpc: the server has been stopped"
ErrGrpcListen == "gRPC server failed to listen on unix socket"
ErrHttpListen == "listen tcp: bind: address already in use"

\* The process is started: main has yet to parse its configuration, no
\* goroutine is started, no signal is pending, the context is live. The
\* field failed is history: a listener has failed.
LifeStart ==
  [main |-> "parse", grpc |-> "none", gstop |-> "none", http |-> "none",
   hstop |-> "none", sig |-> FALSE, ctx |-> FALSE, err |-> NoErr, exit |-> <<>>,
   failed |-> FALSE]

store_vars ==
  <<secrets, mu, req, args, items, iter, list, files, versions, resp, accepted,
    batch, last, snap>>

\* A step of main or of a server goroutine that touches neither the store
\* nor a request. No goroutine steps once the process has exited.
LifeStep(l) ==
  /\ life.main # "exited"
  /\ life' = l
  /\ UNCHANGED <<pc, store_vars>>

\* The process ends with the given status: every goroutine ends with it.
Exit(code) ==
  /\ life' = [life EXCEPT !.main = "exited", !.exit = <<code>>]
  /\ pc' = [p \in Procs |-> "exited"]
  /\ UNCHANGED store_vars

\* errgroup: a function started with g.Go has returned err. The first
\* non-nil error is kept and cancels the group's context.
GroupReturn(l, err) ==
  IF err = NoErr THEN l
  ELSE [l EXCEPT !.err = IF l.err = NoErr THEN err ELSE l.err, !.ctx = TRUE]

\* A request of the gRPC server is being handled.
GrpcInFlight ==
  \E p \in Handlers : req[p].kind \in {"mount", "version"} /\ pc[p] # "done"

\* env.Parse succeeds; main makes its logger, context and store.
MainParse ==
  /\ life.main = "parse"
  /\ LifeStep([life EXCEPT !.main = "seed"])

\* env.Parse fails: os.Exit(1).
MainParseFails ==
  /\ life.main = "parse"
  /\ Exit(ExitConfig)

\* errgroup.WithContext, the two g.Go calls and signal.Notify: main is then
\* in its select.
MainGo ==
  /\ life.main = "seed"
  /\ pc[Main] = "serving"
  /\ LifeStep([life EXCEPT !.main = "select", !.grpc = "init", !.http = "init"])

\* SIGINT or SIGTERM is delivered to the channel while main selects on it.
Interrupt ==
  /\ life.main = "select"
  /\ ~life.sig
  /\ LifeStep([life EXCEPT !.sig = TRUE])

\* case <-interrupt: cancel().
MainSelectInterrupt ==
  /\ life.main = "select"
  /\ life.sig
  /\ LifeStep([life EXCEPT !.main = "wait", !.sig = FALSE, !.ctx = TRUE])

\* case <-ctx.Done().
MainSelectDone ==
  /\ life.main = "select"
  /\ life.ctx
  /\ LifeStep([life EXCEPT !.main = "wait"])

\* Variant: g.Wait returns when the first of the two functions has returned.
MainWaitForFirst ==
  /\ life.main = "wait"
  /\ life.grpc = "returned" \/ life.http = "returned"
  /\ Exit(IF life.err \notin {NoErr, ErrCanceled, ErrServerClosed}
            THEN ExitError ELSE ExitOK)

\* g.Wait returns once both functions have returned, with the first error:
\* os.Exit(2) unless it is nil, context.Canceled or http.ErrServerClosed,
\* else main returns.
MainWait ==
  /\ life.main = "wait"
  /\ life.grpc = "returned" /\ life.http = "returned"
  /\ Exit(IF life.err \notin {NoErr, ErrCanceled, ErrServerClosed}
            THEN ExitError ELSE ExitOK)

\* startGRPCServer: the socket is removed, its directory made, net.Listen
\* succeeds, the server is made and the shutdown goroutine started.
GrpcListen ==
  /\ life.grpc = "init"
  /\ LifeStep([life EXCEPT !.grpc = "ready", !.gstop = "waiting"])

\* startGRPCServer: os.Remove, os.MkdirAll or net.Listen fails.
GrpcListenFails ==
  /\ life.grpc = "init"
  /\ LifeStep(GroupReturn([life EXCEPT !.grpc = "returned", !.failed = TRUE],
                          ErrGrpcListen))

\* The shutdown goroutine: <-ctx.Done(), then grpcServer.GracefulStop()
\* closes the listener.
GrpcStopCall ==
  /\ life.gstop = "waiting"
  /\ life.ctx
  /\ LifeStep([life EXCEPT !.gstop = "stopping"])

\* GracefulStop returns when no request is being handled.
GrpcStopReturn ==
  /\ life.gstop = "stopping"
  /\ ~GrpcInFlight
  /\ LifeStep([life EXCEPT !.gstop = "done"])

\* grpcServer.Serve(lis) is called: it serves, or returns ErrServerStopped
\* at once when GracefulStop was called before it.
GrpcServe ==
  /\ life.grpc = "ready"
  /\ LifeStep(IF life.gstop = "waiting"
                THEN [life EXCEPT !.grpc = "serving"]
                ELSE GroupReturn([life EXCEPT !.grpc = "returned"], ErrServerStopped))

\* grpcServer.Serve returns nil once GracefulStop is done.
GrpcServeReturn ==
  /\ life.grpc = "serving"
  /\ life.gstop = "done"
  /\ LifeStep(GroupReturn([life EXCEPT !.grpc = "returned"], NoErr))

\* startHTTPServer: the web server, mux and http.Server are made and the
\* shutdown goroutine started.
HttpStart ==
  /\ life.http = "init"
  /\ LifeStep([life EXCEPT !.http = "ready", !.hstop = "waiting"])

\* The shutdown goroutine: <-ctx.Done(), then server.Shutdown closes the
\* listeners.
HttpShutdownCall ==
  /\ life.hstop = "waiting"
  /\ life.ctx
  /\ LifeStep([life EXCEPT !.hstop = "called"])

\* server.Shutdown returns: the connections are idle or the five seconds
\* are over.
HttpShutdownReturn ==
  /\ life.hstop = "called"
  /\ LifeStep([life EXCEPT !.hstop = "done"])

\* server.ListenAndServe binds the port and serves.
HttpListen ==
  /\ life.http = "ready"
  /\ life.hstop = "waiting"
  /\ LifeStep([life EXCEPT !.http = "serving"])

\* server.ListenAndServe fails to bind the port: its error is returned.
HttpListenFails ==
  /\ life.http = "ready"
  /\ life.hstop = "waiting"
  /\ LifeStep(GroupReturn([life EXCEPT !.http = "returned", !.failed = TRUE],
                          ErrHttpListen))

\* server.ListenAndServe returns ErrServerClosed, at once when Shutdown was
\* called before it: startHTTPServer returns nil.
HttpServeReturn ==
  /\ life.http \in {"ready", "serving"}
  /\ life.hstop \in {"called", "done"}
  /\ LifeStep(GroupReturn([life EXCEPT !.http = "returned"], NoErr))

(* ----------------------------- specification -------------------------- *)

\* store := NewMemoryStore(): an empty map, a free lock, no request yet.
Init ==
  /\ secrets = EmptyMap
  /\ mu = [w |-> NoProc, r |-> {}, rq |-> {}, sem |-> 0]
  /\ pc = [p \in Procs |-> IF p = Main THEN "main_seed" ELSE "idle"]
  /\ req = [p \in Procs |-> NoReq]
  /\ args = [p \in Procs |-> NoArgs]
  /\ items = [p \in Procs |-> <<>>]
  /\ iter = [p \in Procs |-> {}]
  /\ list = [p \in Procs |-> <<>>]
  /\ files = [p \in Procs |-> <<>>]
  /\ versions = [p \in Procs |-> <<>>]
  /\ resp = [p \in Procs |-> NoResp]
  /\ accepted = 0
  /\ last = EmptyMap
  /\ snap = [p \in Procs |-> NoSnap]
  /\ batch = [p \in Procs |-> NoBatch]
  /\ life = LifeStart

Next ==
  \/ MainParse \/ MainSeed \/ MainGo
  \/ GrpcListen \/ GrpcServe \/ HttpStart \/ HttpListen
  \/ \E p \in Procs :
       \/ SetLock(p) \/ SetLockWait(p) \/ SetSlot(p) \/ SetName(p) \/ SetValue(p)
       \/ SetVersion(p) \/ SetMode(p) \/ SetUnlock(p)
  \/ \E p \in Workers :
       \/ DeleteLock(p) \/ DeleteLockWait(p) \/ DeleteEntry(p) \/ DeleteUnlock(p)
       \/ ListRLock(p) \/ ListRLockWait(p) \/ ListVisit(p) \/ ListSort(p)
       \/ ListRUnlock(p)
       \/ GetFilesRLock(p) \/ GetFilesRLockWait(p) \/ GetFilesVisit(p)
       \/ GetFilesRUnlock(p)
       \/ Mount(p) \/ MountRespond(p) \/ Version(p)
       \/ HandleIndex(p) \/ IndexRender(p)
       \/ HandleUpdate(p) \/ UpdateRespond(p)
       \/ HandleDelete(p) \/ DeleteRespond(p)
       \/ HandleBulk(p) \/ BulkNext(p) \/ BulkRespond(p)
       \/ Finish(p)

Spec == Init /\ [][Next]_vars

\* The steps goroutine p takes by itself once started: all but the arrival of
\* a request, which is the client's doing.
Runs(p) ==
  \/ p = Main /\ MainSeed
  \/ SetLock(p) \/ SetLockWait(p) \/ SetSlot(p) \/ SetName(p) \/ SetValue(p)
  \/ SetVersion(p) \/ SetMode(p) \/ SetUnlock(p)
  \/ /\ p \in Handlers
     /\ \/ DeleteLock(p) \/ DeleteLockWait(p) \/ DeleteEntry(p) \/ DeleteUnlock(p)
        \/ ListRLock(p) \/ ListRLockWait(p) \/ ListVisit(p) \/ ListSort(p)
        \/ ListRUnlock(p)
        \/ GetFilesRLock(p) \/ GetFilesRLockWait(p) \/ GetFilesVisit(p)
        \/ GetFilesRUnlock(p)
        \/ MountRespond(p) \/ IndexRender(p) \/ UpdateRespond(p)
        \/ DeleteRespond(p) \/ BulkNext(p) \/ BulkRespond(p)
        \/ Finish(p)

\* The Go scheduler runs every goroutine that can run: a goroutine that is
\* not blocked on the lock eventually takes its next step.
FairSpec == Spec /\ \A p \in Procs : WF_vars(Runs(p))

\* The steps main and the server goroutines take by themselves.
MainRuns == MainParse \/ MainParseFails \/ MainGo \/ MainSelectInterrupt
            \/ MainSelectDone \/ MainWait

GrpcRuns == GrpcListen \/ GrpcListenFails \/ GrpcServe \/ GrpcServeReturn

GrpcStopRuns == GrpcStopCall \/ GrpcStopReturn

HttpRuns == HttpStart \/ HttpListen \/ HttpListenFails \/ HttpServeReturn

HttpStopRuns == HttpShutdownCall \/ HttpShutdownReturn

\* The program with its failures and its termination, serving clients that
\* only read: the configuration may not parse, a listener may fail, a signal
\* may arrive; the requests are Mount, Version and GET /. After main's seed
\* no writer comes, so no Lock or RLock ever has to wait.
LifeNext ==
  \/ MainParse \/ MainParseFails \/ MainSeed \/ MainGo
  \/ SetLock(Main) \/ SetSlot(Main) \/ SetName(Main) \/ SetValue(Main)
  \/ SetVersion(Main) \/ SetMode(Main) \/ SetUnlock(Main)
  \/ Interrupt \/ MainSelectInterrupt \/ MainSelectDone \/ MainWait
  \/ GrpcListen \/ GrpcListenFails \/ GrpcServe \/ GrpcStopCall
  \/ GrpcStopReturn \/ GrpcServeReturn
  \/ HttpStart \/ HttpListen \/ HttpListenFails \/ HttpShutdownCall
  \/ HttpShutdownReturn \/ HttpServeReturn
  \/ \E p \in Workers :
       \/ Mount(p) \/ GetFilesRLock(p) \/ GetFilesVisit(p) \/ GetFilesRUnlock(p)
       \/ MountRespond(p) \/ Version(p)
       \/ HandleIndex(p) \/ ListRLock(p) \/ ListVisit(p) \/ ListSort(p)
       \/ ListRUnlock(p) \/ IndexRender(p)
       \/ Finish(p)

LifeSpec == Init /\ [][LifeNext]_vars

LifeFairSpec ==
  /\ LifeSpec
  /\ \A p \in Procs : WF_vars(Runs(p))
  /\ WF_vars(MainRuns) /\ WF_vars(GrpcRuns) /\ WF_vars(GrpcStopRuns)
  /\ WF_vars(HttpRuns) /\ WF_vars(HttpStopRuns)

\* The clients send on: the requests accepted so far are a burst that is
\* over, and the next burst begins.
MoreRequests ==
  /\ accepted = MaxRequests
  /\ accepted' = 0
  /\ UNCHANGED <<secrets, mu, pc, req, args, items, iter, list, files, versions,
                 resp, batch, last, snap, life>>

\* The requests of the stream: a Mount, a delete of a, and a bulk import
\* whose element is a store.Set of a, as handleUpdate's is.
StreamRequests ==
  { [kind |-> "mount", targetPath |-> "/mnt/a", attributes |-> <<>>],
    HttpRequest("/delete", "POST", FALSE, MkForm([name |-> "a"])),
    HttpRequest("/bulk", "POST", FALSE,
                [json_data |-> JArray(<<JObject(JString("a"), JString("x"),
                                                 JString("v1"))>>)]) }

\* The handlers, entered with a request of the stream.
StreamMount(p) == Mount(p) /\ req'[p] \in StreamRequests

StreamDelete(p) == HandleDelete(p) /\ req'[p] \in StreamRequests

StreamBulk(p) == HandleBulk(p) /\ req'[p] \in StreamRequests

\* The program in service under requests that never cease: Mount calls
\* beside deletes and bulk imports, on three request goroutines, with no
\* failure and no signal.
StreamNext ==
  \/ MainParse \/ MainSeed \/ MainGo
  \/ GrpcListen \/ GrpcServe \/ HttpStart \/ HttpListen
  \/ MoreRequests
  \/ \E p \in Procs :
       \/ SetLock(p) \/ SetLockWait(p) \/ SetSlot(p) \/ SetName(p) \/ SetValue(p)
       \/ SetVersion(p) \/ SetMode(p) \/ SetUnlock(p)
  \/ \E p \in Handlers :
       \/ DeleteLock(p) \/ DeleteLockWait(p) \/ DeleteEntry(p) \/ DeleteUnlock(p)
       \/ GetFilesRLock(p) \/ GetFilesRLockWait(p) \/ GetFilesVisit(p)
       \/ GetFilesRUnlock(p)
       \/ StreamMount(p) \/ MountRespond(p)
       \/ StreamDelete(p) \/ DeleteRespond(p)
       \/ StreamBulk(p) \/ BulkNext(p) \/ BulkRespond(p)
       \/ Finish(p)

StreamSpec == Init /\ [][StreamNext]_vars

StreamFairSpec == StreamSpec /\ \A p \in Procs : WF_vars(Runs(p))

(* ------------------------------ properties ---------------------------- *)

SeqSet(s) == {s[i] : i \in 1..Len(s)}

\* A writer is between Lock and Unlock.
WriterInside(p) ==
  pc[p] \in {"set_slot", "set_name", "set_value", "set_version", "set_mode",
             "set_unlock", "del_delete", "del_unlock"}

\* List has returned its slice to handleIndex.
ListReturned(p) ==
  /\ req[p].kind = "http"
  /\ req[p].path = "/"
  /\ pc[p] \in {"idx_render", "done"}

\* GetFiles has returned its two slices to Mount.
MountReturned(p) ==
  /\ req[p].kind = "mount"
  /\ pc[p] \in {"mount_respond", "done"}

\* C1: a whole-store read returns the store of one instant between its call
\* and its return, the instant it took the read lock: List's records are
\* exactly the records the store held then, GetFiles' files and versions are
\* exactly those of the records it held then, and every returned record is,
\* in all its fields, the record of the one Set that had last written its
\* name at that instant.  The response carries these slices unchanged.
C1_ReadsOneInstant ==
  \A p \in Workers :
    /\ ListReturned(p) =>
         /\ SeqSet(list[p]) = Records(snap[p].store)
         /\ SeqSet(list[p]) \subseteq Records(snap[p].last)
         /\ pc[p] = "done" => resp[p].body = list[p]
    /\ MountReturned(p) =>
         /\ SeqSet(files[p]) = {File(r) : r \in Records(snap[p].store)}
         /\ SeqSet(versions[p]) = {ObjectVersion(r) : r \in Records(snap[p].store)}
         /\ SeqSet(files[p]) \subseteq {File(r) : r \in Records(snap[p].last)}
         /\ SeqSet(versions[p]) \subseteq {ObjectVersion(r) : r \in Records(snap[p].last)}
         /\ pc[p] = "done" => resp[p].files = files[p] /\ resp[p].versions = versions[p]

\* A Mount has answered with a non-empty result that a write has since
\* overtaken, while the other worker is still writing.
C1_Witness ==
  \E p \in Workers, q \in Workers :
    /\ MountReturned(p)
    /\ pc[p] = "done"
    /\ resp[p].files # <<>>
    /\ secrets # snap[p].store
    /\ WriterInside(q)

\* C2: when List has sorted its slice (it still holds the read lock, so the
\* history is that of the operations applied so far), the slice holds exactly
\* one record for each name whose last operation was a Set, that record being
\* the one that Set wrote, and no other record, in strictly ascending order
\* of name.
C2_ListIsLastSetsSorted ==
  \A p \in Workers :
    pc[p] = "list_runlock" =>
      /\ Len(list[p]) = Cardinality(DOMAIN last)
      /\ {list[p][i].Name : i \in 1..Len(list[p])} = DOMAIN last
      /\ \A i \in 1..Len(list[p]) : list[p][i] = last[list[p][i].Name]
      /\ \A i \in 1..Len(list[p]) - 1 : StrLess(list[p][i].Name, list[p][i + 1].Name)

\* List returns three records after Sets on three names.
C2_Witness ==
  \E p \in Workers :
    /\ pc[p] = "list_runlock"
    /\ Len(list[p]) = 3

\* C3: whenever no writer is inside the lock, every name whose last lock
\* holder was a Set has one record, and that record is in all four fields the
\* record of that Set: the Set that took the write lock last.
C3_LastLockerWins ==
  (\A p \in Procs : ~WriterInside(p)) =>
    \A n \in DOMAIN last : n \in DOMAIN secrets /\ secrets[n] = last[n]

\* Two Sets on one name with different values are in flight together: one is
\* inside the lock, the other has called Lock and waits.
C3_Witness ==
  \E p \in Workers, q \in Workers :
    /\ p # q
    /\ pc[p] \in {"set_value", "set_version"}
    /\ pc[q] = "set_lock"
    /\ args[p].name = args[q].name
    /\ args[p].value # args[q].value
    /\ args[p].version # args[q].version

\* C4: the two slices GetFiles returns have the same length, the number of
\* records the store held when the read lock was taken; position by position
\* the file's path is the version's id, and the file's mode and contents and
\* the version's version are those of the record of that name; no name
\* appears twice.
C4_FilesMatchVersions ==
  \A p \in Workers :
    MountReturned(p) =>
      /\ Len(files[p]) = Len(versions[p])
      /\ Len(files[p]) = Cardinality(DOMAIN snap[p].store)
      /\ \A i \in 1..Len(files[p]) :
           /\ i <= Len(versions[p])
           /\ files[p][i].Path = versions[p][i].Id
           /\ files[p][i].Path \in DOMAIN snap[p].store
           /\ files[p][i].Mode = snap[p].store[files[p][i].Path].Mode
           /\ files[p][i].Contents = snap[p].store[files[p][i].Path].Value
           /\ versions[p][i].Version = snap[p].store[files[p][i].Path].Version
      /\ \A i \in 1..Len(files[p]), j \in 1..Len(files[p]) :
           files[p][i].Path = files[p][j].Path => i = j

\* GetFiles has returned three files.
C4_Witness ==
  \E p \in Workers :
    /\ MountReturned(p)
    /\ Len(files[p]) = 3

\* C5: a Set on a name the store already holds (the record of an earlier Set,
\* nothing having touched the name since this Set took the lock) leaves, when
\* it returns, the same set of names as before, hence one record for the
\* name, and that record has the value, version and mode of this Set.
C5_OverwriteReplaces ==
  \A p \in Procs :
    (pc[p] = "set_unlock" /\ args[p].name \in DOMAIN snap[p].store) =>
      /\ DOMAIN secrets = DOMAIN snap[p].store
      /\ secrets[args[p].name] =
           Secret(args[p].name, args[p].value, args[p].version, args[p].mode)

\* A Set is about to return after overwriting a record whose value and
\* version were both different.
C5_Witness ==
  \E p \in Workers :
    /\ pc[p] = "set_unlock"
    /\ args[p].name \in DOMAIN snap[p].store
    /\ snap[p].store[args[p].name].Value # args[p].value
    /\ snap[p].store[args[p].name].Version # args[p].version
    /\ snap[p].store[args[p].name].Value # ""

\* C6: two Mount calls that read the same store state return the same set of
\* files and the same set of object versions, whatever their targetPath and
\* attributes, and every Mount returns a file for every record of that state.
C6_MountIgnoresRequest ==
  \A p \in Workers, q \in Workers :
    (MountReturned(p) /\ MountReturned(q) /\ snap[p].store = snap[q].store) =>
      /\ SeqSet(files[p]) = SeqSet(files[q])
      /\ SeqSet(versions[p]) = SeqSet(versions[q])
      /\ {files[p][i].Path : i \in 1..Len(files[p])} = DOMAIN snap[p].store
      /\ {versions[p][i].Id : i \in 1..Len(versions[p])} = DOMAIN snap[p].store

\* Two Mounts with different targetPath and attributes have both answered
\* from the same non-empty store state.
C6_Witness ==
  \E p \in Workers, q \in Workers :
    /\ MountReturned(p) /\ MountReturned(q)
    /\ pc[p] = "done" /\ pc[q] = "done"
    /\ req[p].targetPath # req[q].targetPath
    /\ req[p].attributes # req[q].attributes
    /\ snap[p].store = snap[q].store
    /\ resp[p].files # <<>>

\* A step taken by the goroutine of a Mount or Version call.
ProviderStep(p) ==
  /\ \/ req[p].kind \in {"mount", "version"}
     \/ req'[p].kind \in {"mount", "version"}
  /\ <<pc[p], iter[p], req[p]>>' # <<pc[p], iter[p], req[p]>>

\* C7: no step of a Mount or Version call changes the store: the set of
\* records and every record's fields are the same after the step as before.
C7_ProviderNeverWrites ==
  [][\A p \in Workers : ProviderStep(p) => secrets' = secrets]_vars

\* A Mount and a Version call have both answered while the store holds the
\* records the Mount returned.
C7_Witness ==
  \E p \in Workers, q \in Workers :
    /\ pc[p] = "done" /\ req[p].kind = "mount"
    /\ pc[q] = "done" /\ req[q].kind = "version"
    /\ resp[p].files # <<>>
    /\ secrets = snap[p].store

\* strconv.Atoi on the mode strings the requests carry.
ParsesAsInteger(s) == s \in {"384"}

IntegerOf(s) == CASE s = "384" -> 384

\* The mode the claim expects handleUpdate to store.
ModeOfForm(form) ==
  IF "mode" \in DOMAIN form /\ ParsesAsInteger(form["mode"])
    THEN IntegerOf(form["mode"])
    ELSE DefaultMode

UpdateRequest(r) == r.kind = "http" /\ r.path = "/update"

\* C8 (as claimed): when the Set of a POST /update is about to return, the
\* record has the mode of the form's mode field when that parses as an
\* integer, 420 otherwise, and the version of the form, "" when unsupplied.
C8_StoresFormMode ==
  \A p \in Workers :
    (pc[p] = "set_unlock" /\ UpdateRequest(req[p])) =>
      /\ secrets[args[p].name].Mode = ModeOfForm(req[p].form)
      /\ secrets[args[p].name].Version = FormValue(req[p].form, "version")

\* A POST /update whose name or value is empty or missing.
EmptyFieldUpdate(r) ==
  /\ UpdateRequest(r)
  /\ r.method = "POST"
  /\ FormValue(r.form, "name") = "" \/ FormValue(r.form, "value") = ""

\* C9: a POST /update with an empty or missing name or value is, for as long
\* as the request lives, answered with 400 and at no store call; the step
\* that accepts it leaves the store as it was.
C9_EmptyFieldRejected ==
  /\ [](\A p \in Workers :
          EmptyFieldUpdate(req[p]) =>
            /\ pc[p] = "done"
            /\ resp[p] = HttpStatus(StatusBadRequest)
            /\ args[p] = NoArgs)
  /\ [][\A p \in Workers :
          (EmptyFieldUpdate(req'[p]) /\ req[p] # req'[p]) =>
            secrets' = secrets /\ last' = last]_vars

\* A POST /update with a name and an empty value has been answered 400 while
\* the store holds records.
C9_Witness ==
  \E p \in Workers :
    /\ EmptyFieldUpdate(req[p])
    /\ FormValue(req[p].form, "name") # ""
    /\ "value" \in DOMAIN req[p].form
    /\ pc[p] = "done"
    /\ resp[p].status = StatusBadRequest
    /\ DOMAIN secrets # {}

\* A POST /delete whose name is empty or missing.
EmptyNameDelete(r) ==
  /\ r.kind = "http"
  /\ r.path = "/delete"
  /\ r.method = "POST"
  /\ FormValue(r.form, "name") = ""

\* C10 (as claimed): a POST /delete with an empty or missing name fails
\* validation before it reaches the store: for as long as the request lives
\* its handler has returned and is at no call of store.Delete.
C10_DeleteRequiresName ==
  \A p \in Workers :
    EmptyNameDelete(req[p]) =>
      /\ pc[p] = "done"
      /\ args[p] = NoArgs

\* C11 (as claimed): whenever no writer is inside the lock, every record the
\* store holds has a non-empty name, under a non-empty key.
C11_NamesNonEmpty ==
  (\A p \in Procs : ~WriterInside(p)) =>
    \A n \in DOMAIN secrets : n # "" /\ secrets[n].Name # ""

\* Ascending by name, in Go's byte order; equal names are not in order.
SortedBy(s, Key(_)) == \A i \in 1..Len(s) - 1 : StrLess(Key(s[i]), Key(s[i + 1]))

NameOf(r) == r.Name

PathOf(f) == f.Path

IdOf(v) == v.Id

\* C12 (as claimed): the slice List returns is sorted ascending by name, and
\* so are the files, by path, and the versions, by id, that GetFiles returns
\* to Mount.
C12_SortedForEveryConsumer ==
  \A p \in Workers :
    /\ ListReturned(p) => SortedBy(list[p], NameOf)
    /\ MountReturned(p) =>
         /\ SortedBy(files[p], PathOf)
         /\ SortedBy(versions[p], IdOf)

BulkRequest(r) == r.kind = "http" /\ r.path = "/bulk" /\ r.method = "POST"

\* A json_data text that is not a JSON array of objects with string fields:
\* it does not scan, its top-level value is neither an array nor null (which
\* Go decodes as the nil slice), or an element has a field of another type.
NotAnItemArray(data) ==
  \/ ~data.syntax
  \/ data.top \notin {"array", "null"}
  \/ \E i \in 1..Len(data.elems) : TypeError(data.elems[i])

BadBulk(r) == BulkRequest(r) /\ NotAnItemArray(JsonData(r.form))

\* C13: a POST /bulk whose json_data does not decode is, for as long as the
\* request lives, answered with 400, at no store call and with no item left
\* to apply; the one step that handles it leaves every record as it was.
C13_BadBulkAppliesNothing ==
  /\ [](\A p \in Workers :
          BadBulk(req[p]) =>
            /\ pc[p] = "done"
            /\ resp[p] = HttpStatus(StatusBadRequest)
            /\ args[p] = NoArgs
            /\ items[p] = <<>>)
  /\ [][\A p \in Workers :
          (BadBulk(req'[p]) /\ req[p] # req'[p]) =>
            secrets' = secrets /\ last' = last]_vars

\* A payload whose first element is well-formed and whose second is not has
\* been answered 400, and the name of the first element is not in the store.
C13_Witness ==
  \E p \in Workers :
    /\ BadBulk(req[p])
    /\ pc[p] = "done"
    /\ resp[p].status = StatusBadRequest
    /\ Len(JsonData(req[p].form).elems) = 2
    /\ ~TypeError(JsonData(req[p].form).elems[1])
    /\ DecodeItem(JsonData(req[p].form).elems[1]).Name \notin DOMAIN secrets

\* The items of a /bulk request, as decoded from its json_data.
BulkItems(r) == Unmarshal(JsonData(r.form)).items

\* The last element of its that carries the name n.
LastOf(its, n) ==
  its[CHOOSE i \in 1..Len(its) :
        its[i].Name = n /\ \A j \in (i + 1)..Len(its) : its[j].Name # n]

\* The store `base` after one Set per element of its, in order.
Applied(base, its) ==
  [n \in DOMAIN base \cup {its[i].Name : i \in 1..Len(its)} |->
     IF \E i \in 1..Len(its) : its[i].Name = n
       THEN Secret(n, LastOf(its, n).Value, LastOf(its, n).Version, DefaultMode)
       ELSE base[n]]

\* The loop of handleBulk is between two Set calls, or past the last one.
BulkBetweenSets(p) ==
  /\ BulkRequest(req[p])
  /\ batch[p].open
  /\ pc[p] \in {"bulk_loop", "done"}

\* C14: while a bulk import runs with no other writer, each time its loop is
\* between two Set calls the store is the store it started from with the
\* elements taken so far applied in array order, mode 420: a name of the
\* batch holds the value and version of the last element carrying it, every
\* other record is unchanged; at the end all elements have been applied and
\* the request is answered with the redirect.
C14_BulkAppliesInOrder ==
  \A p \in Workers :
    (BulkBetweenSets(p) /\ batch[p].alone) =>
      LET its == BulkItems(req[p])
          taken == SubSeq(its, 1, Len(its) - Len(items[p]))
      IN /\ secrets = Applied(batch[p].store, taken)
         /\ pc[p] = "done" =>
              /\ taken = its
              /\ resp[p] = HttpStatus(StatusSeeOther)

\* A batch of two elements with the same name and different values has been
\* applied with no other writer.
C14_Witness ==
  \E p \in Workers :
    /\ BulkBetweenSets(p) /\ batch[p].alone
    /\ pc[p] = "done"
    /\ Len(BulkItems(req[p])) = 2
    /\ BulkItems(req[p])[1].Name = BulkItems(req[p])[2].Name
    /\ BulkItems(req[p])[1].Value # BulkItems(req[p])[2].Value

\* C15: between two Set calls of its batch a bulk import neither holds nor
\* awaits the store lock, as writer or as reader, so readers and writers
\* can get in between two elements.
C15_LockFreeBetweenElements ==
  \A p \in Workers :
    pc[p] = "bulk_loop" => (mu.w # p /\ p \notin mu.r \cup mu.rq)

\* A Mount has returned, beside a bulk import of two new names that no other
\* writer ran beside, the store the import started from plus the first
\* element only.
C15_Witness ==
  \E p \in Workers, q \in Workers :
    /\ BulkRequest(req[p]) /\ batch[p].open /\ batch[p].alone
    /\ Len(BulkItems(req[p])) = 2
    /\ BulkItems(req[p])[1].Name # BulkItems(req[p])[2].Name
    /\ BulkItems(req[p])[1].Name \notin DOMAIN batch[p].store
    /\ BulkItems(req[p])[2].Name \notin DOMAIN batch[p].store
    /\ MountReturned(q)
    /\ pc[q] = "done"
    /\ {resp[q].files[i].Path : i \in 1..Len(resp[q].files)} =
         DOMAIN batch[p].store \cup {BulkItems(req[p])[1].Name}

\* What List returns from the map m: its records, ascending by name.
ListOf(m) ==
  CHOOSE s \in [1..Cardinality(DOMAIN m) -> Records(m)] :
    \A i \in 1..Len(s) - 1 : StrLess(s[i].Name, s[i + 1].Name)

\* C16: a Delete of a name the store did not hold when the Delete took the
\* lock leaves, when it is about to return, the store exactly as it was, so
\* List's output is the same before and after; the call then returns and
\* its handler goes on to the redirect.
C16_DeleteAbsentIsNoOp ==
  \A p \in Workers :
    (pc[p] = "del_unlock" /\ args[p].name \notin DOMAIN snap[p].store) =>
      /\ secrets = snap[p].store
      /\ ListOf(secrets) = ListOf(snap[p].store)
      /\ ENABLED DeleteUnlock(p)

\* A Delete of "a" is about to return from a store that holds records but
\* none named "a".
C16_Witness ==
  \E p \in Workers :
    /\ pc[p] = "del_unlock"
    /\ args[p].name = "a"
    /\ "a" \notin DOMAIN snap[p].store
    /\ Cardinality(DOMAIN secrets) >= 2

\* The Set of a POST /update has returned to handleUpdate.
UpdateReturned(p) ==
  /\ UpdateRequest(req[p])
  /\ \/ pc[p] = "upd_respond"
     \/ pc[p] = "done" /\ resp[p] = HttpStatus(StatusSeeOther)

\* The record m holds for the name of the update r has r's value and version.
HoldsUpdate(m, r) ==
  /\ FormValue(r.form, "name") \in DOMAIN m
  /\ m[FormValue(r.form, "name")].Value = FormValue(r.form, "value")
  /\ m[FormValue(r.form, "name")].Version = FormValue(r.form, "version")

\* A Set or Delete on the name n is between Lock and Unlock.
WritingName(n) == \E q \in Procs : WriterInside(q) /\ args[q].name = n

\* C17: once the Set of a POST /update has returned, for as long as the
\* update is the last write of its name (no Set or Delete on the name is
\* inside the lock, and the last one that was left the update's value and
\* version), the store holds a record of that name with that value and
\* version, whoever is writing other names; and every Mount that took the
\* read lock in that period returns a file with that path and contents and
\* an object version with that id and version.
C17_ReturnedSetIsVisible ==
  \A p \in Workers :
    UpdateReturned(p) =>
      LET name == FormValue(req[p].form, "name")
          value == FormValue(req[p].form, "value")
          version == FormValue(req[p].form, "version")
      IN /\ (HoldsUpdate(last, req[p]) /\ ~WritingName(name)) =>
              HoldsUpdate(secrets, req[p])
         /\ \A q \in Workers :
              (MountReturned(q) /\ HoldsUpdate(snap[q].last, req[p])) =>
                /\ \E i \in 1..Len(files[q]) :
                     files[q][i].Path = name /\ files[q][i].Contents = value
                /\ \E i \in 1..Len(versions[q]) :
                     versions[q][i].Id = name /\ versions[q][i].Version = version

\* An update of the seed record has been answered with its redirect and a
\* Mount has answered with the new contents and version under that path.
C17_Witness ==
  \E p \in Workers, q \in Workers :
    /\ UpdateReturned(p) /\ pc[p] = "done"
    /\ FormValue(req[p].form, "name") = SeedName
    /\ MountReturned(q) /\ pc[q] = "done"
    /\ HoldsUpdate(snap[q].last, req[p])
    /\ \E i \in 1..Len(resp[q].files) :
         /\ resp[q].files[i].Path = SeedName
         /\ resp[q].files[i].Contents = FormValue(req[p].form, "value")
         /\ resp[q].files[i].Contents # SeedValue

\* C19: a Set whose arguments are those of the record the store already held
\* under that name when it took the lock (the state a first Set with the
\* same arguments leaves) returns with the store exactly as it was.
C19_SetTwiceIsSetOnce ==
  \A p \in Procs :
    ( /\ pc[p] = "set_unlock"
      /\ args[p].name \in DOMAIN snap[p].store
      /\ snap[p].store[args[p].name] =
           Secret(args[p].name, args[p].value, args[p].version, args[p].mode) ) =>
      secrets = snap[p].store

\* The second of two Sets with the same arguments, the two elements of one
\* batch, is about to return, with no other writer in between.
C19_Witness ==
  \E p \in Workers :
    /\ pc[p] = "set_unlock"
    /\ BulkRequest(req[p])
    /\ batch[p].open /\ batch[p].alone
    /\ Len(BulkItems(req[p])) = 2
    /\ BulkItems(req[p])[1] = BulkItems(req[p])[2]
    /\ items[p] = <<>>
    /\ args[p].name \notin DOMAIN batch[p].store
    /\ snap[p].store[args[p].name] =
         Secret(args[p].name, args[p].value, args[p].version, args[p].mode)

\* C20: a Version request is answered in the step that accepts it, with code
\* OK and the triple (v1alpha1, csi-debugger-provider, 0.0.1), and its
\* goroutine is never at the store lock; a goroutine free to take a request
\* can always answer a Version request, whatever the state of the lock.
C20_VersionIsConstant ==
  \A p \in Workers :
    /\ req[p].kind = "version" =>
         /\ pc[p] = "done"
         /\ resp[p].code = "OK"
         /\ resp[p].version = "v1alpha1"
         /\ resp[p].runtimeName = "csi-debugger-provider"
         /\ resp[p].runtimeVersion = "0.0.1"
         /\ mu.w # p /\ p \notin mu.r \cup mu.rq
    /\ (Accepting(p) /\ \E r \in VersionRequests : Listening(r)) => ENABLED Version(p)

\* A Version request from a client of another version has been answered
\* while a writer holds the lock on a store it has half written.
C20_Witness ==
  \E p \in Workers, q \in Workers :
    /\ req[p].kind = "version" /\ req[p].version = "v0"
    /\ pc[p] = "done"
    /\ pc[q] = "set_value"
    /\ mu.w = q

\* C18: under fair scheduling of the goroutines, every Mount call that has
\* started eventually returns its response, also when Sets, Deletes and bulk
\* imports never cease to arrive.  The lock does not give this: a Mount
\* parked behind a writer is woken by the writer's Unlock with a permit that
\* a Mount arriving later may take, behind the next writer, round after
\* round.
C18_MountEventuallyReturns ==
  \A p \in Handlers :
    (req[p].kind = "mount" /\ pc[p] # "done") ~> (req[p].kind = "mount" /\ pc[p] = "done")

\* No admin request has been accepted so far: every request accepted is a
\* Mount or Version call still being served.
NoAdminRequestYet ==
  /\ accepted = Cardinality({p \in Workers : req[p] # NoReq})
  /\ \A p \in Workers : req[p].kind \in {"none", "mount", "version"}

\* C21: once main has seeded the store and the servers take requests, and for
\* as long as no admin request has been accepted, the store holds exactly one
\* record, debug-secret.txt with the startup value, version v1 and mode 420;
\* a Mount that has returned in that period returned exactly one file, with
\* that path, contents and mode, and exactly one object version, with that
\* id and version.
C21_SeedAtStart ==
  (pc[Main] = "serving" /\ NoAdminRequestYet) =>
    /\ DOMAIN secrets = {"debug-secret.txt"}
    /\ secrets["debug-secret.txt"] =
         [Name |-> "debug-secret.txt", Value |-> "Initial value loaded at startup",
          Version |-> "v1", Mode |-> 420]
    /\ \A p \in Workers :
         MountReturned(p) =>
           /\ files[p] = <<[Path |-> "debug-secret.txt", Mode |-> 420,
                            Contents |-> "Initial value loaded at startup"]>>
           /\ versions[p] = <<[Id |-> "debug-secret.txt", Version |-> "v1"]>>
           /\ pc[p] = "done" =>
                resp[p].files = files[p] /\ resp[p].versions = versions[p]

\* A Mount, the first request the process accepted, has answered.
C21_Witness ==
  \E p \in Workers :
    /\ NoAdminRequestYet
    /\ accepted = 1
    /\ MountReturned(p)
    /\ pc[p] = "done"
    /\ Len(resp[p].files) = 1

\* A request to /update, /delete or /bulk.
AdminWrite(r) == r.kind = "http" /\ r.path \in {"/update", "/delete", "/bulk"}

\* The response is an HTTP status in the 4xx range.
ClientError(r) == r.proto = "http" /\ r.status \in 400..499

\* C22: a request to /update, /delete or /bulk with a method other than POST
\* is, for as long as it lives, answered with 405 and at no store call; every
\* admin request answered with a 4xx status is at no store call and has no
\* item to apply, and the step that writes a 4xx response is the first step
\* of its handler and leaves the store as it was.
C22_RejectedLeavesStore ==
  /\ [](\A p \in Workers :
          /\ (AdminWrite(req[p]) /\ req[p].method # "POST") =>
               /\ pc[p] = "done"
               /\ resp[p] = HttpStatus(StatusMethodNotAllowed)
          /\ ClientError(resp[p]) =>
               /\ pc[p] = "done"
               /\ args[p] = NoArgs
               /\ items[p] = <<>>)
  /\ [][\A p \in Workers :
          (ClientError(resp'[p]) /\ resp[p] # resp'[p]) =>
            /\ pc[p] = "idle"
            /\ secrets' = secrets
            /\ last' = last]_vars

\* A GET /delete naming a record the store holds has been answered 405, and
\* the record is still there.
C22_Witness ==
  \E p \in Workers :
    /\ req[p].kind = "http" /\ req[p].path = "/delete" /\ req[p].method = "GET"
    /\ pc[p] = "done"
    /\ resp[p].status = StatusMethodNotAllowed
    /\ FormValue(req[p].form, "name") \in DOMAIN secrets
    /\ \A q \in Procs : ~WriterInside(q)

\* A List or GetFiles is between RLock and RUnlock.
ReaderInside(p) == pc[p] \in {"list_range", "list_runlock", "gf_range"}

\* C25: while a Set or Delete is between Lock and Unlock, no other Set,
\* Delete, List or GetFiles is inside its own critical section.
C25_WriterExcludesAll ==
  \A p \in Procs, q \in Procs :
    (WriterInside(p) /\ q # p) => (~WriterInside(q) /\ ~ReaderInside(q))

\* A writer is inside while a reader that called RLock is parked behind it.
C25_Witness ==
  \E p \in Workers, q \in Workers :
    /\ WriterInside(p)
    /\ pc[q] \in {"list_rlockwait", "gf_rlockwait"}
    /\ q \in mu.rq

\* The places of a goroutine inside the body of a store method that has
\* called Lock or RLock and not yet returned from Unlock or RUnlock.
InLockedBody(p) ==
  pc[p] \in {"set_lockwait", "set_slot", "set_name", "set_value", "set_version",
             "set_mode", "set_unlock", "del_lockwait", "del_delete", "del_unlock",
             "list_rlockwait", "list_range", "list_runlock", "gf_rlockwait",
             "gf_range"}

\* The goroutine holds or awaits the lock, as writer or as reader.
AtLock(p) == mu.w = p \/ p \in mu.r \/ p \in mu.rq

\* The goroutine has a store call or a request in progress.
Busy(p) == pc[p] \notin {"idle", "serving", "main_seed"}

\* C26: a goroutine holds or awaits the store lock only between the Lock or
\* RLock and the Unlock or RUnlock of one store method: not in a handler
\* (logging, rendering, responding, between two elements of a batch), and
\* not when it is about to call Lock or RLock; and whenever some goroutine
\* has work in progress, some goroutine with work in progress can take its
\* next step.
C26_LockOnlyInStoreBodies ==
  /\ \A p \in Procs : AtLock(p) => InLockedBody(p)
  /\ (\E p \in Procs : Busy(p)) => \E p \in Procs : Busy(p) /\ ENABLED Runs(p)

\* A List has returned and its handler is rendering while the other
\* goroutine is inside Set with the write lock.
C26_Witness ==
  \E p \in Workers, q \in Workers :
    /\ pc[p] = "idx_render"
    /\ Len(list[p]) >= 1
    /\ WriterInside(q)
    /\ mu.w = q

\* C27: from the instant a Set or Delete takes the lock until it returns,
\* every name other than its own is in the store exactly when it was at that
\* instant, with the same record.
C27_OtherNamesUntouched ==
  \A p \in Procs :
    WriterInside(p) =>
      /\ DOMAIN secrets \ {args[p].name} = DOMAIN snap[p].store \ {args[p].name}
      /\ \A n \in DOMAIN snap[p].store \ {args[p].name} :
           n \in DOMAIN secrets /\ secrets[n] = snap[p].store[n]

\* A Set of a new name, or a Delete of a held name, is about to return
\* from a store that holds two other records.
C27_Witness ==
  \E p \in Workers :
    /\ pc[p] \in {"set_unlock", "del_unlock"}
    /\ Cardinality(DOMAIN snap[p].store \ {args[p].name}) = 2
    /\ (pc[p] = "del_unlock") = (args[p].name \in DOMAIN snap[p].store)

\* C28: whenever no writer is inside the lock, the record under every key has
\* that key as its Name; every file a Mount returns has a key of the store it
\* read as its path, and the object version beside it has the same id.
C28_RecordNameIsKey ==
  /\ (\A p \in Procs : ~WriterInside(p)) =>
       \A k \in DOMAIN secrets : secrets[k].Name = k
  /\ \A p \in Workers :
       MountReturned(p) =>
         \A i \in 1..Len(files[p]) :
           /\ files[p][i].Path \in DOMAIN snap[p].store
           /\ i <= Len(versions[p])
           /\ versions[p][i].Id = files[p][i].Path

\* A Mount has returned three files from a store of three keys, one of them
\* the empty name.
C28_Witness ==
  \E p \in Workers :
    /\ MountReturned(p)
    /\ Len(files[p]) = 3
    /\ DOMAIN snap[p].store = {"", "a", "debug-secret.txt"}
    /\ \A q \in Procs : ~WriterInside(q)

\* C29: whenever no writer is inside the lock every record has mode 420, and
\* every file a Mount returns has mode 420.
C29_ModeIsAlways420 ==
  /\ (\A p \in Procs : ~WriterInside(p)) =>
       \A k \in DOMAIN secrets : secrets[k].Mode = 420
  /\ \A p \in Workers :
       MountReturned(p) => \A i \in 1..Len(files[p]) : files[p][i].Mode = 420

\* An update whose form asks for mode 384 has been stored and answered, and
\* a Mount has returned the record.
C29_Witness ==
  \E p \in Workers, q \in Workers :
    /\ UpdateReturned(p) /\ pc[p] = "done"
    /\ "mode" \in DOMAIN req[p].form /\ req[p].form["mode"] = "384"
    /\ MountReturned(q)
    /\ \E i \in 1..Len(files[q]) : files[q][i].Path = FormValue(req[p].form, "name")

\* C30 (as claimed): whenever no writer is inside the lock, every record the
\* store holds has a non-empty value.
C30_ValuesNonEmpty ==
  (\A p \in Procs : ~WriterInside(p)) =>
    \A k \in DOMAIN secrets : secrets[k].Value # ""

\* The shutdown has a cause: a signal is pending or the context is cancelled.
ShutdownTriggered == life.sig \/ life.ctx

\* C23: the shutdown goroutines of both loops act on the cancellation of the
\* one shared context only; when main has left g.Wait, with status 0 or 2,
\* both startGRPCServer and startHTTPServer have returned; and once a signal
\* is pending or the context is cancelled the process eventually exits.
C23_JoinAllThenExit ==
  /\ [](/\ life.gstop \in {"stopping", "done"} => life.ctx
        /\ life.hstop \in {"called", "done"} => life.ctx
        /\ life.exit \in {<<ExitOK>>, <<ExitError>>} =>
             life.grpc = "returned" /\ life.http = "returned")
  /\ (ShutdownTriggered ~> life.main = "exited")

\* After a signal, with no failure, both loops have served, both shutdown
\* goroutines have acted, both loops have returned and main has returned.
C23_Witness ==
  /\ life.exit = <<ExitOK>>
  /\ ~life.failed
  /\ life.gstop = "done" /\ life.hstop \in {"called", "done"}
  /\ life.grpc = "returned" /\ life.http = "returned"
  /\ \E p \in Workers, q \in Workers :
       /\ req[p].kind = "mount" /\ resp[p].proto = "grpc"
       /\ Len(resp[p].files) = 1
       /\ req[q].kind = "http" /\ resp[q].proto = "http"
       /\ resp[q].status = StatusOK

\* C24 (as claimed): the process exits with 1 only when the configuration
\* did not parse, and then no loop was started; after a listener failed it
\* exits with 2 and both loops have returned; and a shutdown in which no
\* listener failed, the graceful one, exits with 0.
C24_ExitCodes ==
  /\ life.exit = <<ExitConfig>> =>
       life.grpc = "none" /\ life.http = "none" /\ pc[Main] = "exited"
                          /\ secrets = EmptyMap
  /\ (life.main = "exited" /\ life.failed) =>
       /\ life.exit = <<ExitError>>
       /\ life.ctx
       /\ life.grpc = "returned" /\ life.http = "returned"
  /\ (life.main = "exited" /\ life.exit # <<ExitConfig>> /\ ~life.failed) =>
       life.exit = <<ExitOK>>

====
